---- MODULE Spec2Model ----
(***************************************************************************)
(* Order / transaction lifecycle of the LearnSphere storefront.            *)
(*                                                                         *)
(* The model covers the Firestore "transactions" collection, the service   *)
(* functions of src/services/firebase.ts that read and write it, the       *)
(* receipt dispatcher of src/services/email.ts, and the Checkout and       *)
(* Admin handlers of src/App.tsx that call them.  Every `await` on the     *)
(* store or on the mail relay is a point at which other browser sessions   *)
(* may run, so an async function is one action per awaited round trip.     *)
(*                                                                         *)
(* Timestamps are ISO-8601 strings in the code (new Date().toISOString()); *)
(* their lexicographic order is the order of the instants they denote, so  *)
(* the model keeps the instant as an integer number of clock ticks.        *)
(***************************************************************************)
EXTENDS Integers, Sequences, FiniteSets, TLC

\* ------------------------------------------------------------------ bounds

\* Largest number of documents the transactions collection may hold.
MaxTx == 2
\* Last tick of the wall clock.
MaxTime == 1
\* Largest number of documents the reviews collection may hold.
MaxReviews == 1
\* Largest number of courses addCourse and bulkAddCourses may create.
MaxNewCourses == 2
\* Largest number of updateUserWishlist calls on their way at once.
MaxSyncs == 2

\* Reviews posted while the course pages are watched.
MaxPosts == 2

\* ------------------------------------------------------------- vocabulary

\* OrderStatus (../types), as written into and compared with the documents.
PENDING == "Pending"
CONFIRMED == "Confirmed"

\* user?._id is a string for a signed-in user and the draft carries null for a guest.
NULL == "null"

\* Browser sessions running the storefront.
Sessions == {"s1", "s2"}

\* The identity each session is signed in with (NULL: guest checkout).
SessionUser(s) == IF s = "s1" THEN "u1" ELSE NULL

\* formData.name / formData.email as the checkout form submits them.
FormName(s) == IF s = "s1" THEN "Asha" ELSE "Guest"
FormEmail(s) == IF s = "s1" THEN "asha@example.com" ELSE "guest@example.com"

\* Payment references a customer may type into the checkout form (`required`).
Refs == {"TXN-001", "TXN-002"}

\* User ids the purchase queries are asked about.
UserIds == {"u1", "u2"}

\* The courses collection when the sessions start: id, name, price.
InitCourses ==
  <<[id |-> 1, name |-> "Intro to Go", price |-> 999],
    [id |-> 2, name |-> "intro to go", price |-> 499]>>

CourseIds == DOMAIN InitCourses

\* The course pages each session's visitor opens and may add to the cart from.
Browses(s) == IF s = "s1" THEN CourseIds ELSE {1}

\* Courses whose heart button the visitor may press.
WishIds == {1, 2, 5}

\* Prices the admin may set.
Prices == {999}

CourseNames == {"Intro to Go", "intro to go", "React Basics"}

\* Clicks on the orders table whose handlers may be running at once.
Handlers == {"h1", "h2"}

\* Messages
DuplicateMessage == "Transaction ID already exists. Please verify your payment details."
StoreUnavailable == "Could not reach Cloud Firestore backend"
NoError == ""
ConfirmedToast == "Order confirmed successfully"
ConfirmFailedToast == "Failed to confirm order"

\* ------------------------------------------------------------------ state

VARIABLES
  transactions,      \* the transactions collection: document id -> document
  courses,           \* the courses collection: course id -> document
  reviews,           \* the reviews collection, in insertion order
  now,               \* the wall clock
  emailConfig,       \* EMAILJS_CONFIG of the deployed build
  cartItems,         \* App state, per session: the cart
  pc,                \* per session: where Checkout.handleSubmit is
  draft,             \* per session: the argument of the running createTransaction
  callStart,         \* per session: the clock when createTransaction was called
  newTx,             \* per session: createTransaction's newTx, handed to addDoc
  transaction,       \* per session: what createTransaction returned
  success,           \* per session: Checkout's `success`
  error,             \* per session: Checkout's `error`
  receipts,          \* receipts dispatched: relay mails and downloaded files
  adminPc,           \* per running Admin.handleConfirm: where it is
  adminTarget,       \* per running Admin.handleConfirm: its argument
  adminTransactions, \* Admin's `transactions` (the orders table)
  adminToast,        \* the toast the Admin page showed last
  delivery,          \* per session: how its last sendOrderConfirmationEmail ended
  catPc,             \* per running addCourse / bulkAddCourses: where it is
  catArg,            \* per running addCourse / bulkAddCourses: the course data
  catRead,           \* per running call: the ids of the list getCourses returned
  catSeen,           \* per running call: the ids in the collection at that read
  added,             \* per handler: what its last addCourse returned
  assigned,          \* the ids given to new courses, in the order written
  user,              \* per session: App's `user` (NULL or its wishlist)
  profile,           \* the users collection: user id -> stored wishlist
  syncing,           \* updateUserWishlist calls on their way to the store
  online,            \* whether the document store answers
  viewCourse,        \* per view: the course its running getReviews is for
  viewReviews,       \* per view: the list its last getReviews handed it
  avgRating,         \* per view: its `avgRating`
  identity,          \* per session: the signed-in identity auth holds
  storedRole,        \* the users collection: user id -> stored role
  reads,             \* per session: profile reads of the session callback
  cache,             \* per session: localStorage's 'user'
  loginPc,           \* per session: the identity of the running loginUser
  loginError         \* per session: Login's `error`

storeVars == <<transactions, courses, reviews>>
sessionVars == <<cartItems, pc, draft, callStart, newTx, transaction, success, error>>
adminVars == <<adminPc, adminTarget, adminTransactions, adminToast>>

catalogVars == <<catPc, catArg, catRead, catSeen, added, assigned>>
wishVars == <<user, profile, syncing>>
viewVars == <<viewCourse, viewReviews, avgRating>>
authVars == <<identity, storedRole, reads, cache, loginPc, loginError>>

vars == <<transactions, courses, reviews, now, emailConfig, cartItems, pc, draft,
          callStart, newTx, transaction, success, error, receipts, adminPc,
          adminTarget, adminTransactions, adminToast, delivery, catPc, catArg,
          catRead, catSeen, added, assigned, user, profile, syncing, online,
          viewCourse, viewReviews, avgRating, identity, storedRole, reads,
          cache, loginPc, loginError>>

Range(f) == {f[i] : i \in DOMAIN f}

NoDraft == [transactionId |-> NULL]
NoTx == [_id |-> 0]
NoCourse == [id |-> 0]
NoUser == [_id |-> NULL]

\* ------------------------------------------------- services/firebase.ts

\* Mutant: the existence query filters on the wrong field.
QueryByPayerEmail(txs, ref) ==
  {id \in DOMAIN txs : txs[id].payerEmail = ref}

\* query(collection, where("transactionId", "==", ref)) followed by getDocs:
\* the ids of the documents whose payment reference is exactly ref.
QueryByTransactionId(txs, ref) ==
  {id \in DOMAIN txs : txs[id].transactionId = ref}

\* Mutant: the order is created awaiting confirmation.
NewTxPending(data, clock) ==
  [userId        |-> data.userId,
   customerName  |-> data.customerName,
   payerEmail    |-> data.payerEmail,
   transactionId |-> data.transactionId,
   courses       |-> data.courses,
   totalAmount   |-> data.totalAmount,
   status        |-> PENDING,
   timestamp     |-> clock]

\* createTransaction's newTx: the draft, status forced, timestamp from the clock.
NewTx(data, clock) ==
  [userId        |-> data.userId,
   customerName  |-> data.customerName,
   payerEmail    |-> data.payerEmail,
   transactionId |-> data.transactionId,
   courses       |-> data.courses,
   totalAmount   |-> data.totalAmount,
   status        |-> CONFIRMED,
   timestamp     |-> clock]

\* Mutant: the store keeps one document per payment reference and drops
\* the write of a reference it already holds.
AddDocUnique(txs, document) ==
  IF \E id \in DOMAIN txs : txs[id].transactionId = document.transactionId
  THEN txs
  ELSE Append(txs, document)

\* addDoc: the store appends the document under an id it generates.
AddDoc(txs, document) == Append(txs, document)

\* { ...doc.data(), _id: doc.id }
WithId(id, document) ==
  [_id           |-> id,
   userId        |-> document.userId,
   customerName  |-> document.customerName,
   payerEmail    |-> document.payerEmail,
   transactionId |-> document.transactionId,
   courses       |-> document.courses,
   totalAmount   |-> document.totalAmount,
   status        |-> document.status,
   timestamp     |-> document.timestamp]

\* Mutant: the query orders by timestamp ascending.
Older(a, b) ==
  \/ a.timestamp < b.timestamp
  \/ a.timestamp = b.timestamp /\ a._id < b._id

\* orderBy('timestamp', 'desc'): a is listed before b.  Firestore breaks ties
\* of the ordering field by document id, in the direction of the ordering.
Newer(a, b) ==
  \/ a.timestamp > b.timestamp
  \/ a.timestamp = b.timestamp /\ a._id > b._id

RECURSIVE OrderDesc(_)
OrderDesc(docs) ==
  IF docs = {} THEN <<>>
  ELSE LET first == CHOOSE x \in docs : \A y \in docs \ {x} : Newer(x, y)
       IN  <<first>> \o OrderDesc(docs \ {first})

\* getTransactions: every document with its id, newest first.
GetTransactions(txs) ==
  OrderDesc({WithId(id, txs[id]) : id \in DOMAIN txs})

\* Array.prototype.includes on a list of course names.
Includes(list, x) == \E i \in 1..Len(list) : list[i] = x

\* Mutant: the status of the order is not looked at.
PurchaseMatchesAnyStatus(tx, userId, courseName) ==
  /\ tx.userId = userId
  /\ Includes(tx.courses, courseName)

\* The predicate hasUserPurchasedCourse hands to Array.prototype.some.
PurchaseMatches(tx, userId, courseName) ==
  /\ tx.userId = userId
  /\ tx.status = CONFIRMED
  /\ Includes(tx.courses, courseName)

\* Mutant: a failed read counts as a purchase.
PurchasedUnlessRead(up, txs, userId, courseName) ==
  IF ~up THEN TRUE
  ELSE LET list == GetTransactions(txs)
       IN  \E i \in 1..Len(list) : PurchaseMatches(list[i], userId, courseName)

\* hasUserPurchasedCourse; up = FALSE is getTransactions throwing.
HasUserPurchasedCourse(up, txs, userId, courseName) ==
  IF ~up THEN FALSE
  ELSE LET list == GetTransactions(txs)
       IN  \E i \in 1..Len(list) : PurchaseMatches(list[i], userId, courseName)

\* Mutant: the update flips the status instead of setting it.
ConfirmTransactionToggle(txs, id) ==
  [txs EXCEPT ![id] = [@ EXCEPT !.status =
                         IF @ = CONFIRMED THEN PENDING ELSE CONFIRMED]]

\* updateDoc(txRef, { status: CONFIRMED }) on an existing document.
ConfirmTransaction(txs, id) ==
  [txs EXCEPT ![id] = [@ EXCEPT !.status = CONFIRMED]]

\* ------------------------------------------------------- services/email.ts

Placeholders ==
  [SERVICE_ID  |-> "service_placeholder",
   TEMPLATE_ID |-> "template_placeholder",
   PUBLIC_KEY  |-> "key_placeholder"]

Configured ==
  [SERVICE_ID  |-> "service_xyz",
   TEMPLATE_ID |-> "template_abc",
   PUBLIC_KEY  |-> "user_123"]

\* EMAILJS_CONFIG as shipped, and after the keys have been pasted in.
Configs == {Placeholders, Configured}

\* EMAILJS_CONFIG with each of the three values pasted in or left as shipped.
PartialConfigs ==
  [SERVICE_ID  : {Placeholders.SERVICE_ID, Configured.SERVICE_ID},
   TEMPLATE_ID : {Placeholders.TEMPLATE_ID, Configured.TEMPLATE_ID},
   PUBLIC_KEY  : {Placeholders.PUBLIC_KEY, Configured.PUBLIC_KEY}]


\* Mutant: the check compares the service id with the key's placeholder.
RelayCheckedOnServiceId(config) == config.SERVICE_ID # "key_placeholder"

\* The check at the head of the try block: the relay is called at all.
RelayAttempted(config) == config.PUBLIC_KEY # "key_placeholder"

\* What emailjs.send delivered / what downloadReceipt saved.
RelayMail(tx) == [kind |-> "mail", to |-> tx.payerEmail, id |-> tx._id,
                  transactionId |-> tx.transactionId]
ReceiptFile(tx) == [kind |-> "file", to |-> tx.payerEmail, id |-> tx._id,
                    transactionId |-> tx.transactionId]

\* sendOrderConfirmationEmail: the ways a call can end, each with the value
\* returned and the receipt produced.  Unconfigured, the try block throws
\* before the relay is called; configured, emailjs.send resolves or rejects.
\* Every throw of the try block is caught and ends in downloadReceipt.
EmailOutcomes(config, tx) ==
  IF ~RelayAttempted(config)
  THEN {[returned |-> FALSE, relayCalled |-> FALSE, receipt |-> ReceiptFile(tx)]}
  ELSE {[returned |-> TRUE, relayCalled |-> TRUE, receipt |-> RelayMail(tx)],
        [returned |-> FALSE, relayCalled |-> TRUE, receipt |-> ReceiptFile(tx)]}

\* How a call of sendOrderConfirmationEmail ended: the value it returned,
\* whether emailjs.send was called and which receipt it left behind.
Ended(r) ==
  [returned |-> r.returned, relayCalled |-> r.relayCalled, kind |-> r.receipt.kind]

\* No call of sendOrderConfirmationEmail has ended on this checkout page.
NotSent == [kind |-> "none"]

\* ---------------------------------------------------------------- App.tsx

\* Mutant: the total is the number of items, not the sum of their prices.
CountItems(items) == Len(items)

RECURSIVE SumPrices(_)
\* cartItems.reduce((sum, item) => sum + item.price, 0)
SumPrices(items) ==
  IF items = <<>> THEN 0 ELSE items[1].price + SumPrices(Tail(items))

\* items.map(i => i.name)
Names(items) == [i \in 1..Len(items) |-> items[i].name]

RECURSIVE Without(_, _)
\* cartItems.filter(i => i.cartId !== cartId); a cart holds a course at most
\* once, so the course id stands for the cart id.
Without(items, id) ==
  IF items = <<>> THEN <<>>
  ELSE IF items[1].id = id THEN Without(Tail(items), id)
  ELSE <<items[1]>> \o Without(Tail(items), id)

\* The object Checkout.handleSubmit passes to DB.createTransaction.
DraftOf(s, ref, items) ==
  [userId        |-> SessionUser(s),
   customerName  |-> FormName(s),
   payerEmail    |-> FormEmail(s),
   transactionId |-> ref,
   courses       |-> Names(items),
   totalAmount   |-> SumPrices(items)]

\* createTransaction calls that have been started and not yet returned or thrown.
InFlight == {s \in Sessions : pc[s] \in {"check", "insert"}}

\* App.addToCart, with a course of the catalog as the page shows it.
AddToCart(s, course) ==
  /\ pc[s] = "form"
  /\ ~success[s]
  /\ ~\E i \in 1..Len(cartItems[s]) : cartItems[s][i].id = course.id
  /\ cartItems' = [cartItems EXCEPT ![s] = Append(@, course)]
  /\ UNCHANGED <<storeVars, adminVars, now, emailConfig, pc, draft, callStart,
                 newTx, transaction, success, error, receipts,
                 catalogVars, wishVars, viewVars, authVars, online, delivery>>

\* App.removeFromCart
RemoveFromCart(s, id) ==
  /\ pc[s] = "form"
  /\ ~success[s]
  /\ \E i \in 1..Len(cartItems[s]) : cartItems[s][i].id = id
  /\ cartItems' = [cartItems EXCEPT ![s] = Without(@, id)]
  /\ UNCHANGED <<storeVars, adminVars, now, emailConfig, pc, draft, callStart,
                 newTx, transaction, success, error, receipts,
                 catalogVars, wishVars, viewVars, authVars, online, delivery>>

\* Checkout.handleSubmit up to createTransaction's first await: the form is
\* shown (not loading, not the success page, cart not empty), the draft is
\* built and the existence query is sent.
HandleSubmit(s, ref) ==
  /\ pc[s] = "form"
  /\ ~success[s]
  /\ cartItems[s] # <<>>
  /\ Len(transactions) + Cardinality(InFlight) < MaxTx
  /\ pc' = [pc EXCEPT ![s] = "check"]
  /\ error' = [error EXCEPT ![s] = NoError]
  /\ draft' = [draft EXCEPT ![s] = DraftOf(s, ref, cartItems[s])]
  /\ callStart' = [callStart EXCEPT ![s] = now]
  /\ UNCHANGED <<storeVars, adminVars, now, emailConfig, cartItems, newTx,
                 transaction, success, receipts,
                 catalogVars, wishVars, viewVars, authVars, online, delivery>>

\* Mutant: the catch block shows the message and sends the request again.
CaughtAndRetried(s, message) ==
  /\ pc' = [pc EXCEPT ![s] = "check"]
  /\ error' = [error EXCEPT ![s] = message]
  /\ newTx' = [newTx EXCEPT ![s] = NoDraft]
  /\ UNCHANGED <<draft, callStart, transaction>>

\* handleSubmit's catch and finally: the message is shown, loading ends.
Caught(s, message) ==
  /\ pc' = [pc EXCEPT ![s] = "form"]
  /\ error' = [error EXCEPT ![s] = message]
  /\ draft' = [draft EXCEPT ![s] = NoDraft]
  /\ callStart' = [callStart EXCEPT ![s] = 0]
  /\ newTx' = [newTx EXCEPT ![s] = NoDraft]
  /\ transaction' = [transaction EXCEPT ![s] = NoTx]

\* createTransaction from the answer of getDocs to the call of addDoc.
CreateCheck(s) ==
  /\ pc[s] = "check"
  /\ \/ /\ Caught(s, StoreUnavailable)
     \/ /\ QueryByTransactionId(transactions, draft[s].transactionId) # {}
        /\ Caught(s, DuplicateMessage)
     \/ /\ QueryByTransactionId(transactions, draft[s].transactionId) = {}
        /\ newTx' = [newTx EXCEPT ![s] = NewTx(draft[s], now)]
        /\ pc' = [pc EXCEPT ![s] = "insert"]
        /\ UNCHANGED <<draft, callStart, transaction, error>>
  /\ UNCHANGED <<storeVars, adminVars, now, emailConfig, cartItems, success,
                 receipts,
                 catalogVars, wishVars, viewVars, authVars, online, delivery>>

\* addDoc lands and createTransaction returns { ...newTx, _id: docRef.id };
\* handleSubmit goes on to call sendOrderConfirmationEmail.
CreateInsert(s) ==
  /\ pc[s] = "insert"
  /\ \/ /\ Caught(s, StoreUnavailable)
        /\ UNCHANGED transactions
     \/ /\ transactions' = AddDoc(transactions, newTx[s])
        /\ transaction' = [transaction EXCEPT
                             ![s] = WithId(Len(transactions) + 1, newTx[s])]
        /\ pc' = [pc EXCEPT ![s] = "email"]
        /\ UNCHANGED <<draft, callStart, newTx, error>>
  /\ UNCHANGED <<courses, reviews, adminVars, now, emailConfig, cartItems,
                 success, receipts,
                 catalogVars, wishVars, viewVars, authVars, online, delivery>>

\* The rest of handleSubmit once sendOrderConfirmationEmail has returned.
Cleanup(s) ==
  /\ cartItems' = [cartItems EXCEPT ![s] = <<>>]
  /\ success' = [success EXCEPT ![s] = TRUE]
  /\ pc' = [pc EXCEPT ![s] = "form"]
  /\ draft' = [draft EXCEPT ![s] = NoDraft]
  /\ callStart' = [callStart EXCEPT ![s] = 0]
  /\ newTx' = [newTx EXCEPT ![s] = NoDraft]
  /\ transaction' = [transaction EXCEPT ![s] = NoTx]

\* Mutant: an order whose mail did not go out is put back to Pending.
SendEmailUnconfirming(s) ==
  /\ pc[s] = "email"
  /\ \E r \in EmailOutcomes(emailConfig, transaction[s]) :
       /\ receipts' = receipts \cup {r.receipt}
       /\ delivery' = [delivery EXCEPT ![s] = Ended(r)]
       /\ transactions' =
            IF r.returned THEN transactions
            ELSE [transactions EXCEPT ![transaction[s]._id].status = PENDING]
  /\ Cleanup(s)
  /\ UNCHANGED <<courses, reviews, adminVars, now, emailConfig, error,
                 catalogVars, wishVars, viewVars, authVars, online>>

\* sendOrderConfirmationEmail and the end of handleSubmit: the receipt goes
\* out in one of the ways the configuration allows, the function returns
\* (true or false) and handleSubmit clears the cart and shows success.
SendEmail(s) ==
  /\ pc[s] = "email"
  /\ \E r \in EmailOutcomes(emailConfig, transaction[s]) :
       /\ receipts' = receipts \cup {r.receipt}
       /\ delivery' = [delivery EXCEPT ![s] = Ended(r)]
  /\ Cleanup(s)
  /\ UNCHANGED <<storeVars, adminVars, now, emailConfig, error,
                 catalogVars, wishVars, viewVars, authVars, online>>

\* The customer leaves the checkout page; a later visit mounts Checkout anew,
\* with `success` false and `error` empty.
NewCheckout(s) ==
  /\ pc[s] = "form"
  /\ success[s] \/ error[s] # NoError
  /\ success' = [success EXCEPT ![s] = FALSE]
  /\ error' = [error EXCEPT ![s] = NoError]
  /\ delivery' = [delivery EXCEPT ![s] = NotSent]
  /\ UNCHANGED <<storeVars, adminVars, now, emailConfig, cartItems, pc, draft,
                 callStart, newTx, transaction, receipts,
                 catalogVars, wishVars, viewVars, authVars, online>>

\* The clock advances.
Tick ==
  /\ now < MaxTime
  /\ now' = now + 1
  /\ UNCHANGED <<storeVars, adminVars, sessionVars, emailConfig, receipts,
                 catalogVars, wishVars, viewVars, authVars, online, delivery>>

\* ------------------------------------------------------------ Admin page

\* The effect that loads the orders table: getTransactions().then(setTransactions).
AdminLoad ==
  /\ \A h \in Handlers : adminPc[h] = "idle"
  /\ adminTransactions # GetTransactions(transactions)
  /\ adminTransactions' = GetTransactions(transactions)
  /\ UNCHANGED <<storeVars, sessionVars, now, emailConfig, receipts, adminPc,
                 adminTarget, adminToast,
                 catalogVars, wishVars, viewVars, authVars, online, delivery>>

\* Admin.handleConfirm up to its first await: the Confirm button is rendered
\* for the rows of the table whose status is PENDING and is never disabled.
HandleConfirm(h, id) ==
  /\ adminPc[h] = "idle"
  /\ \E i \in 1..Len(adminTransactions) :
       /\ adminTransactions[i]._id = id
       /\ adminTransactions[i].status = PENDING
  /\ adminPc' = [adminPc EXCEPT ![h] = "confirm"]
  /\ adminTarget' = [adminTarget EXCEPT ![h] = id]
  /\ UNCHANGED <<storeVars, sessionVars, now, emailConfig, receipts,
                 adminTransactions, adminToast,
                 catalogVars, wishVars, viewVars, authVars, online, delivery>>

\* handleConfirm's catch.
ConfirmCaught(h) ==
  /\ adminPc' = [adminPc EXCEPT ![h] = "idle"]
  /\ adminTarget' = [adminTarget EXCEPT ![h] = 0]
  /\ adminToast' = ConfirmFailedToast

\* DB.confirmTransaction's updateDoc lands (or the store cannot be reached).
ConfirmLands(h) ==
  /\ adminPc[h] = "confirm"
  /\ \/ /\ ConfirmCaught(h)
        /\ UNCHANGED <<transactions, adminTransactions>>
     \/ /\ adminTarget[h] \in DOMAIN transactions
        /\ transactions' = ConfirmTransaction(transactions, adminTarget[h])
        /\ adminPc' = [adminPc EXCEPT ![h] = "refresh"]
        /\ UNCHANGED <<adminTarget, adminTransactions, adminToast>>
  /\ UNCHANGED <<courses, reviews, sessionVars, now, emailConfig, receipts,
                 catalogVars, wishVars, viewVars, authVars, online, delivery>>

\* handleConfirm's getTransactions answers: the table is replaced.
RefreshLands(h) ==
  /\ adminPc[h] = "refresh"
  /\ \/ /\ ConfirmCaught(h)
        /\ UNCHANGED adminTransactions
     \/ /\ adminTransactions' = GetTransactions(transactions)
        /\ adminToast' = ConfirmedToast
        /\ adminPc' = [adminPc EXCEPT ![h] = "idle"]
        /\ adminTarget' = [adminTarget EXCEPT ![h] = 0]
  /\ UNCHANGED <<storeVars, sessionVars, now, emailConfig, receipts,
                 catalogVars, wishVars, viewVars, authVars, online, delivery>>

\* --------------------------------------------- course and review services

\* confirmTransaction called on its own: one updateDoc, which the store
\* rejects for an id that names no document.
ConfirmTransactionCall(id) ==
  /\ id \in DOMAIN transactions
  /\ transactions' = ConfirmTransaction(transactions, id)
  /\ UNCHANGED <<courses, reviews, sessionVars, adminVars, now, emailConfig,
                 receipts,
                 catalogVars, wishVars, viewVars, authVars, online, delivery>>

\* Mutant: deleting a course also deletes the orders that name it.
DeleteCourseCascade(id) ==
  /\ id \in DOMAIN courses
  /\ courses' = [k \in DOMAIN courses \ {id} |-> courses[k]]
  /\ transactions' = SelectSeq(transactions,
                       LAMBDA t : ~Includes(t.courses, courses[id].name))
  /\ UNCHANGED <<reviews, sessionVars, adminVars, now, emailConfig, receipts,
                 catalogVars, wishVars, viewVars, authVars, online, delivery>>

\* deleteCourse: deleteDoc of the course document.
DeleteCourse(id) ==
  /\ id \in DOMAIN courses
  /\ courses' = [k \in DOMAIN courses \ {id} |-> courses[k]]
  /\ UNCHANGED <<transactions, reviews, sessionVars, adminVars, now,
                 emailConfig, receipts,
                 catalogVars, wishVars, viewVars, authVars, online, delivery>>

\* updateCoursePrice: updateDoc of the price field of an existing course.
UpdateCoursePrice(id, newPrice) ==
  /\ id \in DOMAIN courses
  /\ courses' = [courses EXCEPT ![id] = [@ EXCEPT !.price = newPrice]]
  /\ UNCHANGED <<transactions, reviews, sessionVars, adminVars, now,
                 emailConfig, receipts,
                 catalogVars, wishVars, viewVars, authVars, online, delivery>>

\* COURSES of ../constants: the fixed course set seedCourses writes and
\* getCourses falls back to.
INITIAL_COURSES == InitCourses

\* The course data the Admin page's add form and a bulk import may submit.
CourseData == {[name |-> "React Basics", price |-> 500]}

Batches ==
  {<<[name |-> "React Basics", price |-> 500]>>,
   <<[name |-> "React Basics", price |-> 500], [name |-> "Intro to Go", price |-> 1200]>>}

RECURSIVE SortById(_)
\* querySnapshot.docs.map(...).sort((a, b) => a.id - b.id)
SortById(catalog) ==
  IF DOMAIN catalog = {} THEN <<>>
  ELSE LET k == CHOOSE x \in DOMAIN catalog :
                  \A y \in DOMAIN catalog : catalog[x].id <= catalog[y].id
       IN  <<catalog[k]>> \o SortById([j \in DOMAIN catalog \ {k} |-> catalog[j]])

\* getCourses; up = FALSE is getDocs throwing: the catch returns the backup.
GetCourses(up, catalog) == IF up THEN SortById(catalog) ELSE INITIAL_COURSES

\* Mutant: the orders of the user are taken whatever their status.
IsOrderOf(tx, userId) == tx.userId = userId

\* The filter of getUserPurchasedCourses: a confirmed order of the user.
IsConfirmedOrderOf(tx, userId) ==
  tx.userId = userId /\ tx.status = CONFIRMED

\* A course name with its capitals made small.
Folded(name) == IF name = "Intro to Go" THEN "intro to go" ELSE name

\* Mutant: the catalog is matched with the ordered names without regard to
\* capitals.
PurchasedCoursesFolded(txUp, coursesUp, txs, catalog, userId) ==
  IF ~txUp THEN <<>>
  ELSE LET confirmedTx == SelectSeq(GetTransactions(txs),
                                    LAMBDA tx : IsConfirmedOrderOf(tx, userId))
           courseNames == UNION {{Folded(n) : n \in Range(confirmedTx[i].courses)} :
                                   i \in 1..Len(confirmedTx)}
           allCourses  == GetCourses(coursesUp, catalog)
       IN  SelectSeq(allCourses, LAMBDA c : Folded(c.name) \in courseNames)

\* getUserPurchasedCourses: the names in the user's confirmed orders, then
\* the courses getCourses returns whose name is among them.  txUp = FALSE is
\* getTransactions throwing (the catch returns []); coursesUp = FALSE is
\* getCourses falling back to the backup list.
GetUserPurchasedCourses(txUp, coursesUp, txs, catalog, userId) ==
  IF ~txUp THEN <<>>
  ELSE LET confirmedTx == SelectSeq(GetTransactions(txs),
                                    LAMBDA tx : IsConfirmedOrderOf(tx, userId))
           courseNames == UNION {Range(confirmedTx[i].courses) :
                                   i \in 1..Len(confirmedTx)}
           allCourses  == GetCourses(coursesUp, catalog)
       IN  SelectSeq(allCourses, LAMBDA c : c.name \in courseNames)

\* courses.map(c => c.id)
Ids(list) == [i \in 1..Len(list) |-> list[i].id]

\* Math.max(...ids) of a list that is not empty.
MaxId(ids) ==
  CHOOSE m \in Range(ids) : \A i \in 1..Len(ids) : ids[i] <= m

\* Mutant: the id after the number of courses, not after the largest id.
NewIdByCount(ids) == Len(ids) + 1

\* addCourse: newId = courses.length > 0 ? Math.max(...) + 1 : 1
NewId(ids) == IF Len(ids) > 0 THEN MaxId(ids) + 1 ELSE 1

\* bulkAddCourses: currentMaxId = courses.length > 0 ? Math.max(...) : 0
CurrentMaxId(ids) == IF Len(ids) > 0 THEN MaxId(ids) ELSE 0

\* { id: newId, ...courseData }
WithCourseId(newId, courseData) ==
  [id |-> newId, name |-> courseData.name, price |-> courseData.price]

\* Mutant: the write creates a document and leaves one that exists alone.
SetDocIfAbsent(catalog, id, document) ==
  [k \in DOMAIN catalog \cup {id} |->
     IF k \in DOMAIN catalog THEN catalog[k] ELSE document]

\* setDoc / batch.set on doc(db, COURSES_COLLECTION, id.toString()): the
\* document of that id is created or replaced.
SetDoc(catalog, id, document) ==
  [k \in DOMAIN catalog \cup {id} |-> IF k = id THEN document ELSE catalog[k]]

RECURSIVE SetDocs(_, _)
\* batch.commit(): the documents of the batch, set in the order they were added.
SetDocs(catalog, documents) ==
  IF documents = <<>> THEN catalog
  ELSE SetDocs(SetDoc(catalog, documents[1].id, documents[1]), Tail(documents))

\* The documents bulkAddCourses puts in its batch: newId = currentMaxId + 1 + index.
BulkDocuments(currentMaxId, newCoursesData) ==
  [i \in 1..Len(newCoursesData) |->
     WithCourseId(currentMaxId + 1 + (i - 1), newCoursesData[i])]

\* New courses that running calls have yet to write.
Unwritten == Len(catArg["h1"]) + Len(catArg["h2"])

CatalogFrame ==
  UNCHANGED <<transactions, reviews, sessionVars, adminVars, now, emailConfig,
              receipts, wishVars, viewVars, authVars, online, delivery>>

\* addCourse up to its await of getCourses.
AddCourse(h, courseData) ==
  /\ catPc[h] = "idle"
  /\ Len(assigned) + Unwritten + 1 <= MaxNewCourses
  /\ catPc' = [catPc EXCEPT ![h] = "addRead"]
  /\ catArg' = [catArg EXCEPT ![h] = <<courseData>>]
  /\ UNCHANGED <<courses, catRead, catSeen, added, assigned>>
  /\ CatalogFrame

\* bulkAddCourses up to its await of getCourses.
BulkAddCourses(h, newCoursesData) ==
  /\ catPc[h] = "idle"
  /\ Len(assigned) + Unwritten + Len(newCoursesData) <= MaxNewCourses
  /\ catPc' = [catPc EXCEPT ![h] = "bulkRead"]
  /\ catArg' = [catArg EXCEPT ![h] = newCoursesData]
  /\ UNCHANGED <<courses, catRead, catSeen, added, assigned>>
  /\ CatalogFrame

\* getCourses answers addCourse or bulkAddCourses: the sorted collection, or
\* the backup list when getDocs threw.
CoursesRead(h, up) ==
  /\ catPc[h] \in {"addRead", "bulkRead"}
  /\ catRead' = [catRead EXCEPT ![h] = Ids(GetCourses(up, courses))]
  /\ catSeen' = [catSeen EXCEPT ![h] = Ids(SortById(courses))]
  /\ catPc' = [catPc EXCEPT ![h] = IF catPc[h] = "addRead" THEN "addSet" ELSE "bulkCommit"]
  /\ UNCHANGED <<courses, catArg, added, assigned>>
  /\ CatalogFrame

\* The call of the handler is over.
CatalogDone(h) ==
  /\ catPc' = [catPc EXCEPT ![h] = "idle"]
  /\ catArg' = [catArg EXCEPT ![h] = <<>>]
  /\ catRead' = [catRead EXCEPT ![h] = <<>>]
  /\ catSeen' = [catSeen EXCEPT ![h] = <<>>]

\* addCourse from the answer of getCourses on: setDoc lands and the new
\* course is returned, or setDoc throws.
AddCourseSet(h) ==
  /\ catPc[h] = "addSet"
  /\ \/ UNCHANGED <<courses, added, assigned>>
     \/ LET newCourse == WithCourseId(NewId(catRead[h]), catArg[h][1])
        IN  /\ courses' = SetDoc(courses, newCourse.id, newCourse)
            /\ added' = [added EXCEPT ![h] = newCourse]
            /\ assigned' = Append(assigned, newCourse.id)
  /\ CatalogDone(h)
  /\ CatalogFrame

\* bulkAddCourses from the answer of getCourses on: the batch is committed
\* as a whole, or batch.commit throws and nothing is written.
BulkCommit(h) ==
  /\ catPc[h] = "bulkCommit"
  /\ \/ UNCHANGED <<courses, assigned>>
     \/ LET documents == BulkDocuments(CurrentMaxId(catRead[h]), catArg[h])
        IN  /\ courses' = SetDocs(courses, documents)
            /\ assigned' = assigned \o [i \in 1..Len(documents) |-> documents[i].id]
  /\ UNCHANGED added
  /\ CatalogDone(h)
  /\ CatalogFrame

\* Mutant: the batch creates the courses that are missing and leaves the
\* documents that exist alone.
SeedMissing(catalog) ==
  SetDocs(catalog, SelectSeq(INITIAL_COURSES, LAMBDA c : c.id \notin DOMAIN catalog))

\* seedCourses: one batch that sets every course of the fixed set under its id.
SeedCourses(catalog) == SetDocs(catalog, INITIAL_COURSES)

\* Mutant: the reset empties the collection before it writes the seed set.
ResetCoursesReplacing ==
  /\ courses' = SetDocs(<<>>, INITIAL_COURSES)
  /\ UNCHANGED <<catPc, catArg, catRead, catSeen, added, assigned>>
  /\ CatalogFrame

\* resetCourses
ResetCourses ==
  /\ courses' = SeedCourses(courses)
  /\ UNCHANGED <<catPc, catArg, catRead, catSeen, added, assigned>>
  /\ CatalogFrame

\* The reviews CourseDetails.handleSubmitReview may hand to addReview.
ReviewsAt(clock) ==
  {[courseId |-> c, userId |-> "u1", userName |-> "Asha", rating |-> r,
    comment |-> "", date |-> clock] : c \in {1}, r \in {4}}

\* Mutant: a user's second review of a course is turned away.
AddReviewOncePerCourse(review) ==
  /\ online
  /\ \A i \in DOMAIN reviews :
       ~(reviews[i].userId = review.userId /\ reviews[i].courseId = review.courseId)
  /\ reviews' = Append(reviews, review)
  /\ UNCHANGED <<transactions, courses, sessionVars, adminVars, now,
                 emailConfig, receipts,
                 catalogVars, wishVars, viewVars, authVars, online, delivery>>

\* addReview: addDoc to the reviews collection.  A rejected addDoc leaves the
\* collection as it was and is thrown to the caller.
AddReview(review) ==
  /\ online
  /\ reviews' = Append(reviews, review)
  /\ UNCHANGED <<transactions, courses, sessionVars, adminVars, now,
                 emailConfig, receipts,
                 catalogVars, wishVars, viewVars, authVars, online, delivery>>

\* Courses reviews are written for, the stars given, and who writes them.
ReviewedCourses == {1, 5}
Ratings == {2, 4, 5}
Reviewers == {"u1"}

\* The reviews a caller may hand to addReview at the given clock.
Reviews(clock) ==
  {[courseId |-> c, userId |-> u, userName |-> "Asha", rating |-> r,
    comment |-> "", date |-> clock] :
     c \in ReviewedCourses, u \in Reviewers, r \in Ratings}

\* Mutant: the query orders by date ascending.
EarlierReview(a, b) ==
  \/ a[2].date < b[2].date
  \/ a[2].date = b[2].date /\ a[1] < b[1]

\* orderBy('date', 'desc') on <<document id, review>> pairs: a is listed
\* before b, ties of the date broken by document id.
LaterReview(a, b) ==
  \/ a[2].date > b[2].date
  \/ a[2].date = b[2].date /\ a[1] > b[1]

RECURSIVE ByDateDesc(_)
\* getDocs(query(collection(db, REVIEWS_COLLECTION), orderBy('date', 'desc')))
\* followed by .map(doc => doc.data())
ByDateDesc(docs) ==
  IF docs = {} THEN <<>>
  ELSE LET first == CHOOSE x \in docs : \A y \in docs \ {x} : LaterReview(x, y)
       IN  <<first[2]>> \o ByDateDesc(docs \ {first})

\* getReviews; up = FALSE is getDocs throwing: the catch returns [].
GetReviews(up, list, courseId) ==
  IF ~up THEN <<>>
  ELSE SelectSeq(ByDateDesc({<<i, list[i]>> : i \in DOMAIN list}),
                 LAMBDA r : r.courseId = courseId)

\* ---------------------------------------------------- ratings on the pages

\* The components that show a course's rating: the CourseDetails page and a
\* CourseCard.
Views == {"details", "card"}

\* The courses a view may be mounted for: the page follows its route, a card
\* keeps the course it was made for.
Shows(v) == IF v = "details" THEN CourseIds ELSE {1}

RECURSIVE Gcd(_, _)
Gcd(a, b) == IF b = 0 THEN a ELSE Gcd(b, a % b)

\* A quotient of two integers as JavaScript's number holds it: equal
\* quotients are equal numbers.
Quotient(a, b) == [num |-> a \div Gcd(a, b), den |-> b \div Gcd(a, b)]

\* useState(0)
Zero == [num |-> 0, den |-> 1]

RECURSIVE SumRatings(_)
\* data.reduce((a, b) => a + b.rating, 0)
SumRatings(data) ==
  IF data = <<>> THEN 0 ELSE data[1].rating + SumRatings(Tail(data))

\* Mutant: the sum is not divided.
Total(data) == Quotient(SumRatings(data), 1)

\* data.reduce((a, b) => a + b.rating, 0) / data.length
Mean(data) == Quotient(SumRatings(data), Len(data))

\* avgRating.toFixed(1), in tenths: the nearest tenth, the larger one of two
\* equally near.
ToFixed1(x) == (20 * x.num + x.den) \div (2 * x.den)

\* The useEffect of a view: getReviews is called for its course.  A view has
\* one list on its way at a time.
LoadReviews(v, courseId) ==
  /\ viewCourse[v] = 0
  /\ courseId \in DOMAIN courses
  /\ viewCourse' = [viewCourse EXCEPT ![v] = courseId]
  /\ UNCHANGED <<storeVars, sessionVars, adminVars, now, emailConfig, receipts,
                 catalogVars, wishVars, delivery, viewReviews, avgRating,
                 authVars, online>>

\* getReviews returns to CourseDetails.loadReviews or CourseCard.loadRating.
\* The page keeps the list and, of a list that is not empty, the mean; the
\* card keeps the mean and the count of a list that is not empty (its count
\* is the length of the list kept here) and nothing of an empty one.
ReviewsLoaded(v) ==
  /\ viewCourse[v] # 0
  /\ LET data == GetReviews(online, reviews, viewCourse[v])
     IN  /\ viewReviews' = [viewReviews EXCEPT
                              ![v] = IF v = "details" \/ Len(data) > 0
                                     THEN data ELSE @]
         /\ avgRating' = [avgRating EXCEPT
                            ![v] = IF Len(data) > 0 THEN Mean(data) ELSE @]
  /\ viewCourse' = [viewCourse EXCEPT ![v] = 0]
  /\ UNCHANGED <<storeVars, sessionVars, adminVars, now, emailConfig, receipts,
                 catalogVars, wishVars, delivery, authVars, online>>

\* The document store becomes unreachable, or reachable again.
Connectivity ==
  /\ online' = ~online
  /\ UNCHANGED <<storeVars, sessionVars, adminVars, now, emailConfig, receipts,
                 catalogVars, wishVars, delivery, viewVars, authVars>>

\* ------------------------------------------------------------- wishlist

\* Mutant: the course is added whether or not it is on the list.
ToggledByAppending(wishlist, courseId) == Append(wishlist, courseId)

\* toggleWishlist's newWishlist: the list without the course when it includes
\* it, the list with the course appended when it does not.
Toggled(wishlist, courseId) ==
  IF Includes(wishlist, courseId)
  THEN SelectSeq(wishlist, LAMBDA id : id # courseId)
  ELSE Append(wishlist, courseId)

\* App.toggleWishlist up to its await: nothing for a guest; for a signed-in
\* user the new list replaces the one in `user` at once and is handed to
\* updateUserWishlist.  A press is handled with the `user` of the latest
\* render, so presses act one after the other.
ToggleWishlist(s, courseId) ==
  /\ user[s] # NoUser
  /\ Len(syncing) < MaxSyncs
  /\ LET newWishlist == Toggled(user[s].wishlist, courseId)
     IN  /\ user' = [user EXCEPT ![s] = [@ EXCEPT !.wishlist = newWishlist]]
         /\ syncing' = Append(syncing, [userId |-> user[s]._id,
                                        wishlist |-> newWishlist])
  /\ UNCHANGED <<storeVars, sessionVars, adminVars, now, emailConfig, receipts,
                 catalogVars, delivery, profile, viewVars, authVars, online>>

\* Mutant: a write that fails takes the press back in the local list.
WishlistSyncedRollingBack ==
  /\ syncing # <<>>
  /\ \/ /\ profile' = [profile EXCEPT ![Head(syncing).userId] = Head(syncing).wishlist]
        /\ UNCHANGED user
     \/ /\ UNCHANGED profile
        /\ user' = [s \in Sessions |->
                      IF user[s] # NoUser /\ user[s]._id = Head(syncing).userId
                      THEN [user[s] EXCEPT !.wishlist = profile[user[s]._id]]
                      ELSE user[s]]
  /\ syncing' = Tail(syncing)
  /\ UNCHANGED <<storeVars, sessionVars, adminVars, now, emailConfig, receipts,
                 catalogVars, delivery, viewVars, authVars, online>>

\* updateUserWishlist's updateDoc lands, or throws and is caught with a warning.
WishlistSynced ==
  /\ syncing # <<>>
  /\ \/ profile' = [profile EXCEPT ![Head(syncing).userId] = Head(syncing).wishlist]
     \/ UNCHANGED profile
  /\ syncing' = Tail(syncing)
  /\ UNCHANGED <<storeVars, sessionVars, adminVars, now, emailConfig, receipts,
                 catalogVars, delivery, user, viewVars, authVars, online>>

\* ------------------------------------------------- sign-in and the session

\* UserRole (../types)
ADMIN == "admin"
USER == "user"

\* The address subscribeToAuth, registerUser and loginUser compare with.
AdminEmail == "admin@learnsphere.com"

\* The accounts of the directory: a customer's and the administrator's.
Accounts == {"u1", "a1"}

\* firebaseUser.email
EmailOf(uid) == IF uid = "a1" THEN AdminEmail ELSE "asha@example.com"

\* What the users collection may hold for an account: no document, a
\* document without a role, or a document with one.
MISSING == "missing"
RoleFields == {MISSING, NULL, USER, ADMIN}

\* let userProfile: any = {}
EmptyProfile == [role |-> NULL, wishlist |-> NULL]

\* The try block around getDoc: the document's data when the read is answered
\* and the document exists, {} when it does not exist or the read throws.
UserProfile(up, roles, wishlists, uid) ==
  IF ~up \/ roles[uid] = MISSING THEN EmptyProfile
  ELSE [role     |-> roles[uid],
        wishlist |-> IF uid \in DOMAIN wishlists THEN wishlists[uid] ELSE NULL]

\* Mutant: the administrator's address wins over the stored role.
RoleByEmailFirst(userProfile, email) ==
  IF email = AdminEmail THEN ADMIN
  ELSE IF userProfile.role # NULL THEN userProfile.role ELSE USER

\* userProfile.role || (firebaseUser.email === 'admin@learnsphere.com'
\*                      ? UserRole.ADMIN : UserRole.USER)
Role(userProfile, email) ==
  IF userProfile.role # NULL THEN userProfile.role
  ELSE IF email = AdminEmail THEN ADMIN ELSE USER

\* The User built from the identity and the profile.
AuthUser(uid, userProfile) ==
  [_id      |-> uid,
   email    |-> EmailOf(uid),
   role     |-> Role(userProfile, EmailOf(uid)),
   wishlist |-> IF userProfile.wishlist # NULL THEN userProfile.wishlist
                ELSE <<>>]

\* Login's message for a rejected sign-in.
InvalidCredential == "Invalid email or password. For Admin, ensure you registered first."

\* Login.handleSubmit up to loginUser's getDoc.  Accepted credentials make
\* the identity current, which, when it is another identity than before, also
\* starts the session callback with its own profile read; rejected ones end
\* the call with Login's message.
LoginUser(s, account, accepted) ==
  /\ loginPc[s] = NULL
  /\ IF accepted
     THEN /\ identity' = [identity EXCEPT ![s] = account]
          /\ reads' = [reads EXCEPT ![s] = IF identity[s] # account
                                            THEN @ \cup {account} ELSE @]
          /\ loginPc' = [loginPc EXCEPT ![s] = account]
          /\ loginError' = [loginError EXCEPT ![s] = NoError]
     ELSE /\ loginError' = [loginError EXCEPT ![s] = InvalidCredential]
          /\ UNCHANGED <<identity, reads, loginPc>>
  /\ UNCHANGED <<storeVars, sessionVars, adminVars, now, emailConfig, receipts,
                 catalogVars, wishVars, delivery, viewVars, storedRole, cache,
                 online>>

\* loginUser's getDoc is answered or throws, loginUser returns the user and
\* Login hands it to App.login.
LoginReturns(s) ==
  /\ loginPc[s] # NULL
  /\ user' = [user EXCEPT ![s] =
                AuthUser(loginPc[s],
                         UserProfile(online, storedRole, profile, loginPc[s]))]
  /\ loginPc' = [loginPc EXCEPT ![s] = NULL]
  /\ UNCHANGED <<storeVars, sessionVars, adminVars, now, emailConfig, receipts,
                 catalogVars, profile, syncing, delivery, viewVars, identity,
                 storedRole, reads, cache, loginError, online>>

\* The getDoc of a running session callback is answered or throws, and the
\* callback App gave to subscribeToAuth gets the user: setUser and
\* localStorage.setItem.
AuthCallback(s, account) ==
  /\ account \in reads[s]
  /\ LET u == AuthUser(account,
                       UserProfile(online, storedRole, profile, account))
     IN  /\ user' = [user EXCEPT ![s] = u]
         /\ cache' = [cache EXCEPT ![s] = u]
  /\ reads' = [reads EXCEPT ![s] = @ \ {account}]
  /\ UNCHANGED <<storeVars, sessionVars, adminVars, now, emailConfig, receipts,
                 catalogVars, profile, syncing, delivery, viewVars, identity,
                 storedRole, loginPc, loginError, online>>

\* App.logout: signOut, then setUser(null).  Auth tells the session callback
\* only when the identity changed; told of no identity it calls back at once:
\* setUser(null) and localStorage.removeItem.
Logout(s) ==
  /\ user[s] # NoUser
  /\ identity' = [identity EXCEPT ![s] = NULL]
  /\ user' = [user EXCEPT ![s] = NoUser]
  /\ cache' = [cache EXCEPT ![s] = IF identity[s] # NULL THEN NoUser ELSE @]
  /\ UNCHANGED <<storeVars, sessionVars, adminVars, now, emailConfig, receipts,
                 catalogVars, profile, syncing, delivery, viewVars,
                 storedRole, reads, loginPc, loginError, online>>

\* The page is loaded again while no checkout is running: App's state starts
\* over, `user` is taken from localStorage, and the new subscription is told
\* the identity auth holds.  Calls of the page that was left are gone.
Reload(s) ==
  /\ pc[s] = "form"
  /\ cartItems' = [cartItems EXCEPT ![s] = <<>>]
  /\ IF identity[s] # NULL
     THEN /\ user' = [user EXCEPT ![s] = cache[s]]
          /\ reads' = [reads EXCEPT ![s] = {identity[s]}]
          /\ UNCHANGED cache
     ELSE /\ user' = [user EXCEPT ![s] = NoUser]
          /\ reads' = [reads EXCEPT ![s] = {}]
          /\ cache' = [cache EXCEPT ![s] = NoUser]
  /\ loginPc' = [loginPc EXCEPT ![s] = NULL]
  /\ loginError' = [loginError EXCEPT ![s] = NoError]
  /\ UNCHANGED <<storeVars, adminVars, now, emailConfig, receipts, pc, draft,
                 callStart, newTx, transaction, success, error,
                 catalogVars, profile, syncing, delivery, viewVars, identity,
                 storedRole, online>>

\* ------------------------------------------------------- initial states

\* Documents the collection may hold when the sessions start: orders of
\* earlier sessions, among them one still awaiting the admin's confirmation.
LegacyPending ==
  [userId |-> "u1", customerName |-> "Asha", payerEmail |-> "asha@example.com",
   transactionId |-> "TXN-000", courses |-> <<"Intro to Go">>,
   totalAmount |-> 999, status |-> PENDING, timestamp |-> 0]

LegacyGuest ==
  [userId |-> NULL, customerName |-> "Guest", payerEmail |-> "guest@example.com",
   transactionId |-> "TXN-009", courses |-> <<"intro to go", "React Basics">>,
   totalAmount |-> 998, status |-> CONFIRMED, timestamp |-> 0]

LegacyOther ==
  [userId |-> "u2", customerName |-> "Bo", payerEmail |-> "bo@example.com",
   transactionId |-> "TXN-001", courses |-> <<"React Basics">>,
   totalAmount |-> 500, status |-> CONFIRMED, timestamp |-> 1]

InitStores == { <<>>, <<LegacyPending>>, <<LegacyGuest, LegacyOther>> }

\* The profiles registerUser wrote: the customer's with the role `user`, none
\* for the administrator's account.
Registered == [uid \in Accounts |-> IF uid = "u1" THEN USER ELSE MISSING]

\* The state of the stores' other collections and of the pages once the
\* sessions are open and their session callbacks have run.
InitRest ==
  /\ courses = InitCourses
  /\ reviews = <<>>
  /\ now = 0
  /\ cartItems = [s \in Sessions |-> <<>>]
  /\ pc = [s \in Sessions |-> "form"]
  /\ draft = [s \in Sessions |-> NoDraft]
  /\ callStart = [s \in Sessions |-> 0]
  /\ newTx = [s \in Sessions |-> NoDraft]
  /\ transaction = [s \in Sessions |-> NoTx]
  /\ success = [s \in Sessions |-> FALSE]
  /\ error = [s \in Sessions |-> NoError]
  /\ receipts = {}
  /\ adminPc = [h \in Handlers |-> "idle"]
  /\ adminTarget = [h \in Handlers |-> 0]
  /\ adminTransactions = <<>>
  /\ adminToast = NoError
  /\ delivery = [s \in Sessions |-> NotSent]
  /\ catPc = [h \in Handlers |-> "idle"]
  /\ catArg = [h \in Handlers |-> <<>>]
  /\ catRead = [h \in Handlers |-> <<>>]
  /\ catSeen = [h \in Handlers |-> <<>>]
  /\ added = [h \in Handlers |-> NoCourse]
  /\ assigned = <<>>
  /\ profile = [u \in {"u1"} |-> <<>>]
  /\ syncing = <<>>
  /\ online = TRUE
  /\ identity = [s \in Sessions |-> SessionUser(s)]
  /\ user = [s \in Sessions |->
               IF SessionUser(s) = NULL THEN NoUser
               ELSE AuthUser(SessionUser(s),
                             UserProfile(TRUE, storedRole, profile, SessionUser(s)))]
  /\ cache = user
  /\ reads = [s \in Sessions |-> {}]
  /\ loginPc = [s \in Sessions |-> NULL]
  /\ loginError = [s \in Sessions |-> NoError]
  /\ viewCourse = [v \in Views |-> 0]
  /\ viewReviews = [v \in Views |-> <<>>]
  /\ avgRating = [v \in Views |-> Zero]

\* The build as shipped: EMAILJS_CONFIG holds the placeholders.
Init ==
  /\ transactions \in InitStores
  /\ emailConfig = Placeholders
  /\ storedRole = Registered
  /\ InitRest

\* One step of a browser session.
SessionStep(s) ==
  \/ \E id \in DOMAIN courses \cap Browses(s) : AddToCart(s, courses[id])
  \/ \E id \in CourseIds : RemoveFromCart(s, id)
  \/ \E ref \in Refs : HandleSubmit(s, ref)
  \/ CreateCheck(s)
  \/ CreateInsert(s)
  \/ SendEmail(s)
  \/ NewCheckout(s)

\* Two customers check out concurrently.
Next ==
  \/ Tick
  \/ \E s \in Sessions : SessionStep(s)

Spec == Init /\ [][Next]_vars

\* Checkout.handleSubmit started only while no createTransaction is running.
HandleSubmitAlone(s, ref) ==
  /\ InFlight = {}
  /\ HandleSubmit(s, ref)

\* The sessions with createTransaction calls running one at a time.
NextSeq ==
  \/ Tick
  \/ \E s \in Sessions :
       \/ \E id \in DOMAIN courses \cap Browses(s) : AddToCart(s, courses[id])
       \/ \E id \in CourseIds : RemoveFromCart(s, id)
       \/ \E ref \in Refs : HandleSubmitAlone(s, ref)
       \/ CreateCheck(s)
       \/ CreateInsert(s)
       \/ SendEmail(s)
       \/ NewCheckout(s)

SpecSeq == Init /\ [][NextSeq]_vars

\* A store that holds no order yet: every document comes from createTransaction.
InitFresh ==
  /\ transactions = <<>>
  /\ emailConfig = Placeholders
  /\ storedRole = Registered
  /\ InitRest

SpecFresh == InitFresh /\ [][Next]_vars

\* One customer and the admin's orders table.
NextAdmin ==
  \/ Tick
  \/ SessionStep("s1")
  \/ AdminLoad
  \/ \E h \in Handlers :
       \/ \E id \in 1..MaxTx : HandleConfirm(h, id)
       \/ ConfirmLands(h)
       \/ RefreshLands(h)

SpecAdmin == Init /\ [][NextAdmin]_vars

\* One customer and direct calls of the confirm, course and review services.
NextOps ==
  \/ Tick
  \/ SessionStep("s1")
  \/ \E id \in 1..MaxTx : ConfirmTransactionCall(id)
  \/ \E id \in CourseIds : DeleteCourse(id)
  \/ \E id \in CourseIds, newPrice \in Prices : UpdateCoursePrice(id, newPrice)
  \/ \E review \in ReviewsAt(now) : Len(reviews) < MaxReviews /\ AddReview(review)

\* The store holds one order awaiting confirmation when the calls begin.
InitOps ==
  /\ transactions = <<LegacyPending>>
  /\ emailConfig = Placeholders
  /\ storedRole = Registered
  /\ InitRest

SpecOps == InitOps /\ [][NextOps]_vars

\* Builds with the placeholders and builds with the relay keys pasted in.
InitDeployed ==
  /\ transactions \in InitStores
  /\ emailConfig \in Configs
  /\ storedRole = Registered
  /\ InitRest

SpecDeployed == InitDeployed /\ [][NextAdmin]_vars

\* The admin's course operations, two of them possibly running at once, and
\* confirmations of the stored orders.
NextCatalog ==
  \/ \E h \in Handlers :
       \/ \E courseData \in CourseData : AddCourse(h, courseData)
       \/ \E newCoursesData \in Batches : BulkAddCourses(h, newCoursesData)
       \/ \E up \in BOOLEAN : CoursesRead(h, up)
       \/ AddCourseSet(h)
       \/ BulkCommit(h)
  \/ \E id \in DOMAIN courses : DeleteCourse(id)
  \/ ResetCourses
  \/ \E id \in 1..MaxTx : ConfirmTransactionCall(id)

SpecCatalog == Init /\ [][NextCatalog]_vars

\* The admin's course operations called one after the other, each call
\* finished before the next starts, with the store answering every read.
NextCatalogSeq ==
  \/ \E courseData \in CourseData : AddCourse("h1", courseData)
  \/ \E newCoursesData \in Batches : BulkAddCourses("h1", newCoursesData)
  \/ CoursesRead("h1", TRUE)
  \/ AddCourseSet("h1")
  \/ BulkCommit("h1")
  \/ \E id \in DOMAIN courses : catPc["h1"] = "idle" /\ DeleteCourse(id)
  \/ catPc["h1"] = "idle" /\ ResetCourses
  \/ \E id \in 1..MaxTx : ConfirmTransactionCall(id)

SpecCatalogSeq == Init /\ [][NextCatalogSeq]_vars

\* The visitors pressing heart buttons while earlier presses are being saved.
NextWishlist ==
  \/ \E s \in Sessions, courseId \in WishIds : ToggleWishlist(s, courseId)
  \/ WishlistSynced

SpecWishlist == Init /\ [][NextWishlist]_vars

\* One customer checking out on a build with any mix of pasted and shipped
\* relay values.
InitRelay ==
  /\ transactions \in InitStores
  /\ emailConfig \in PartialConfigs
  /\ storedRole = Registered
  /\ InitRest

NextRelay ==
  \/ Tick
  \/ SessionStep("s1")

SpecRelay == InitRelay /\ [][NextRelay]_vars

\* Reviews being posted while the course page and a card load their ratings
\* and the store comes and goes.
NextReviews ==
  \/ Tick
  \/ Connectivity
  \/ \E review \in Reviews(now) : Len(reviews) < MaxPosts /\ AddReview(review)
  \/ \E v \in Views :
       \/ \E courseId \in Shows(v) : LoadReviews(v, courseId)
       \/ ReviewsLoaded(v)

\* A store with confirmed orders of other customers and none of the reviewer.
InitReviews ==
  /\ transactions = <<LegacyGuest, LegacyOther>>
  /\ emailConfig = Placeholders
  /\ storedRole = Registered
  /\ InitRest

SpecReviews == InitReviews /\ [][NextReviews]_vars

\* Accounts whose profile holds any role, or none, or is missing.
InitAuth ==
  /\ transactions = <<>>
  /\ emailConfig = Placeholders
  /\ storedRole \in [Accounts -> RoleFields]
  /\ InitRest

\* One visitor signing in and out and loading the page again while the store
\* comes and goes.
NextAuth ==
  \/ Connectivity
  \/ \E account \in Accounts, accepted \in BOOLEAN :
       LoginUser("s1", account, accepted)
  \/ LoginReturns("s1")
  \/ \E account \in Accounts : AuthCallback("s1", account)
  \/ Logout("s1")
  \/ Reload("s1")

SpecAuth == InitAuth /\ [][NextAuth]_vars

\* One customer checking out, reviews of course 1 being posted and its page
\* loading them, courses being deleted, while the store comes and goes.
NextReads ==
  \/ Connectivity
  \/ SessionStep("s1")
  \/ \E review \in ReviewsAt(now) : Len(reviews) < MaxReviews /\ AddReview(review)
  \/ LoadReviews("details", 1)
  \/ ReviewsLoaded("details")
  \/ \E id \in DOMAIN courses : DeleteCourse(id)

\* A store with one confirmed order, of another customer.
InitReads ==
  /\ transactions = <<LegacyOther>>
  /\ emailConfig = Placeholders
  /\ storedRole = Registered
  /\ InitRest

SpecReads == InitReads /\ [][NextReads]_vars

\* The course data two admins may submit at the same time.
FormCourses == CourseData \cup {[name |-> "Vue Basics", price |-> 700]}

\* Two addCourse or bulkAddCourses calls running at once on a store that
\* answers every read, with no course deleted meanwhile.
NextRace ==
  \E h \in Handlers :
    \/ \E courseData \in FormCourses : AddCourse(h, courseData)
    \/ \E newCoursesData \in Batches : BulkAddCourses(h, newCoursesData)
    \/ CoursesRead(h, TRUE)
    \/ AddCourseSet(h)
    \/ BulkCommit(h)

SpecRace == Init /\ [][NextRace]_vars

\* ----------------------------------------------------------------- claims

\* Some stored document carries the payment reference ref.
ReferenceStored(ref) ==
  \E id \in DOMAIN transactions : transactions[id].transactionId = ref

\* C1: when createTransaction's existence query runs against a store that
\* already holds a transaction with the draft's payment reference, the call
\* fails (with the duplicate error whenever the store answered the query),
\* nothing is handed to addDoc and the transactions collection is left
\* exactly as it was.
C1_DuplicateFailsWithoutWrite ==
  [][\A s \in Sessions :
       ( /\ pc[s] = "check"
         /\ pc'[s] # pc[s] \/ error'[s] # error[s]
         /\ ReferenceStored(draft[s].transactionId) )
       => /\ pc'[s] = "form"
          /\ error'[s] \in {DuplicateMessage, StoreUnavailable}
          /\ newTx'[s] = NoDraft
          /\ ~success'[s]
          /\ transactions' = transactions]_vars

\* C1 witness: a checkout was refused as a duplicate of a stored reference.
C1_Witness ==
  \E s \in Sessions :
    /\ error[s] = DuplicateMessage
    /\ pc[s] = "form"
    /\ transactions # <<>>

\* C2: with createTransaction calls running one at a time, no two stored
\* transactions have the same payment reference.
C2_SequentialReferencesUnique ==
  \A i, j \in DOMAIN transactions :
    i # j => transactions[i].transactionId # transactions[j].transactionId

\* C2 witness: several orders stored, and a later call refused as a duplicate.
C2_Witness ==
  /\ Len(transactions) >= 2
  /\ \E s \in Sessions : error[s] = DuplicateMessage

\* Both sessions have passed the existence check with the same reference and
\* both calls have returned.
BothReturnedSameReference ==
  /\ pc["s1"] = "email"
  /\ pc["s2"] = "email"
  /\ transaction["s1"].transactionId = transaction["s2"].transactionId

\* C3: the existence check and the insert are separate steps.  A call that
\* has passed its check is not checked again: its insert can only fail
\* because the store is unreachable, and when it lands the document is added
\* whatever has been stored meanwhile; so two calls with the same reference
\* that both pass the check both return, and the store holds two documents
\* with that reference.
C3_RaceStoresDuplicates ==
  /\ [](BothReturnedSameReference =>
          /\ transaction["s1"]._id # transaction["s2"]._id
          /\ \A s \in Sessions :
               /\ transaction[s]._id \in DOMAIN transactions
               /\ transactions[transaction[s]._id].transactionId
                    = transaction[s].transactionId)
  /\ [][\A s \in Sessions :
          (pc[s] = "insert" /\ pc'[s] # "insert")
          => \/ /\ pc'[s] = "form"
                /\ error'[s] = StoreUnavailable
                /\ transactions' = transactions
             \/ /\ pc'[s] = "email"
                /\ Len(transactions') = Len(transactions) + 1
                /\ transactions'[Len(transactions')].transactionId
                     = newTx[s].transactionId]_vars

\* C3 witness: both racing calls have returned and two stored documents
\* share the reference.
C3_Witness ==
  /\ BothReturnedSameReference
  /\ \E i, j \in DOMAIN transactions :
       /\ i # j
       /\ transactions[i].transactionId = transactions[j].transactionId

\* C4: every transaction a successful createTransaction returns has status
\* Confirmed and a timestamp not earlier than the start of the call; in a
\* store filled only by createTransaction every document is Confirmed.
C4_CreatedConfirmedAndTimely ==
  /\ \A id \in DOMAIN transactions : transactions[id].status = CONFIRMED
  /\ \A s \in Sessions :
       pc[s] = "email" =>
         /\ transaction[s].status = CONFIRMED
         /\ transaction[s].timestamp >= callStart[s]
         /\ transaction[s].timestamp <= now

\* C4 witness: a call started after the clock's first tick has returned.
C4_Witness ==
  \E s \in Sessions :
    /\ pc[s] = "email"
    /\ callStart[s] > 0
    /\ transactions # <<>>

\* C5: hasUserPurchasedCourse(u, c) is true exactly when some stored
\* transaction has userId u, status Confirmed and c, letter for letter, in
\* its course list; Pending and guest transactions never make it true.
C5_HasPurchasedIffConfirmedMatch ==
  \A u \in UserIds, c \in CourseNames :
    /\ HasUserPurchasedCourse(TRUE, transactions, u, c)
         <=> \E id \in DOMAIN transactions :
               /\ transactions[id].userId = u
               /\ transactions[id].status = "Confirmed"
               /\ c \in Range(transactions[id].courses)
    /\ ( \A id \in DOMAIN transactions :
           \/ transactions[id].status = "Pending"
           \/ transactions[id].userId = NULL
           \/ transactions[id].userId # u
           \/ c \notin Range(transactions[id].courses) )
       => ~HasUserPurchasedCourse(TRUE, transactions, u, c)

\* C5 witness: u1 holds a Pending order of "Intro to Go" and a Confirmed
\* order of "intro to go"; only the latter counts as purchased.
C5_Witness ==
  /\ \E id \in DOMAIN transactions :
       /\ transactions[id].userId = "u1"
       /\ transactions[id].status = PENDING
       /\ transactions[id].courses = <<"Intro to Go">>
  /\ HasUserPurchasedCourse(TRUE, transactions, "u1", "intro to go")
  /\ ~HasUserPurchasedCourse(TRUE, transactions, "u1", "Intro to Go")

\* The fields of an order other than its status.
SameButStatus(a, b) ==
  /\ a.userId = b.userId
  /\ a.customerName = b.customerName
  /\ a.payerEmail = b.payerEmail
  /\ a.transactionId = b.transactionId
  /\ a.courses = b.courses
  /\ a.totalAmount = b.totalAmount
  /\ a.timestamp = b.timestamp

\* C6: confirmTransaction is idempotent.  Applied to any stored order it
\* sets the status to Confirmed and changes nothing else, applying it again
\* gives the same store, and in the Admin page a confirm that lands on an
\* order already Confirmed leaves the transactions collection as it was.
C6_ConfirmIdempotent ==
  /\ [](\A id \in DOMAIN transactions :
          LET once  == ConfirmTransaction(transactions, id)
              twice == ConfirmTransaction(once, id)
          IN  /\ twice = once
              /\ DOMAIN once = DOMAIN transactions
              /\ once[id].status = "Confirmed"
              /\ SameButStatus(once[id], transactions[id])
              /\ \A k \in DOMAIN transactions \ {id} : once[k] = transactions[k])
  /\ [][\A h \in Handlers :
          ( /\ adminPc[h] = "confirm"
            /\ adminPc'[h] = "refresh"
            /\ transactions[adminTarget[h]].status = "Confirmed" )
          => transactions' = transactions]_vars

\* C6 witness: two confirms of the same order have both landed.
C6_Witness ==
  /\ adminPc["h1"] = "refresh"
  /\ adminPc["h2"] = "refresh"
  /\ adminTarget["h1"] = adminTarget["h2"]
  /\ transactions[adminTarget["h1"]].status = CONFIRMED

\* C7: across service operations an order that is Confirmed stays Confirmed,
\* no stored order is deleted, and no field of a stored order other than its
\* status changes.
C7_ConfirmedStaysAndOrdersFrozen ==
  [][\A id \in DOMAIN transactions :
       /\ id \in DOMAIN transactions'
       /\ SameButStatus(transactions'[id], transactions[id])
       /\ transactions[id].status = "Confirmed"
            => transactions'[id].status = "Confirmed"]_vars

\* C7 witness: an order that was Pending has been confirmed, another has been
\* created, a course has been deleted, a price changed and a review added.
C7_Witness ==
  /\ Len(transactions) >= 2
  /\ transactions[1].transactionId = "TXN-000"
  /\ transactions[1].status = CONFIRMED
  /\ 1 \notin DOMAIN courses
  /\ 2 \in DOMAIN courses
  /\ courses[2].price = 999
  /\ reviews # <<>>

\* cartItems.reduce over a cart of at most two items, written out.
CartTotal(items) ==
  IF Len(items) = 0 THEN 0
  ELSE IF Len(items) = 1 THEN items[1].price
  ELSE items[1].price + items[2].price

\* C8: a successful checkout stores exactly one transaction, which carries
\* the draft's values unchanged and status Confirmed; the draft is the cart's
\* course names and the sum of their prices, so reference "TXN-001" with the
\* single course "Intro to Go" at 999 is stored with amount 999 and courses
\* <<"Intro to Go">>; a checkout that reuses a stored reference adds nothing.
C8_CheckoutStoresDraft ==
  [][\A s \in Sessions :
       /\ (pc[s] = "form" /\ pc'[s] = "check") =>
            /\ Len(draft'[s].courses) = Len(cartItems[s])
            /\ \A i \in 1..Len(cartItems[s]) :
                 draft'[s].courses[i] = cartItems[s][i].name
            /\ draft'[s].totalAmount = CartTotal(cartItems[s])
            /\ draft'[s].userId = SessionUser(s)
            /\ ( /\ cartItems[s] = <<[id |-> 1, name |-> "Intro to Go",
                                      price |-> 999]>> )
                 => /\ draft'[s].courses = <<"Intro to Go">>
                    /\ draft'[s].totalAmount = 999
       /\ (pc[s] = "insert" /\ pc'[s] = "email") =>
            /\ Len(transactions') = Len(transactions) + 1
            /\ \A id \in DOMAIN transactions : transactions'[id] = transactions[id]
            /\ LET stored == transactions'[Len(transactions')]
               IN  /\ stored.userId = draft[s].userId
                   /\ stored.customerName = draft[s].customerName
                   /\ stored.payerEmail = draft[s].payerEmail
                   /\ stored.transactionId = draft[s].transactionId
                   /\ stored.courses = draft[s].courses
                   /\ stored.totalAmount = draft[s].totalAmount
                   /\ stored.status = "Confirmed"
                   /\ transaction'[s]._id = Len(transactions')
       /\ ( /\ pc[s] = "check"
            /\ pc'[s] # "check"
            /\ ReferenceStored(draft[s].transactionId) )
          => (pc'[s] = "form" /\ transactions' = transactions)]_vars

\* C8 witness: the order "TXN-001" for "Intro to Go" at 999 is stored
\* Confirmed, once, and a second checkout with "TXN-001" was refused.
C8_Witness ==
  /\ \E id \in DOMAIN transactions :
       /\ transactions[id].transactionId = "TXN-001"
       /\ transactions[id].totalAmount = 999
       /\ transactions[id].courses = <<"Intro to Go">>
       /\ transactions[id].status = CONFIRMED
       /\ \A k \in DOMAIN transactions \ {id} :
            transactions[k].transactionId # "TXN-001"
  /\ \E s \in Sessions : error[s] = DuplicateMessage

\* C9: when createTransaction fails in a checkout, the error reaches the
\* checkout, which shows it, sends no receipt, leaves the cart alone, does
\* not show success and does not send the request again; the cart is
\* cleared and success is shown only once the order is in the store.
C9_FailureBlocksCheckout ==
  [][\A s \in Sessions :
       /\ (pc[s] \in {"check", "insert"} /\ error'[s] # error[s]) =>
            /\ error'[s] \in {DuplicateMessage, StoreUnavailable}
            /\ pc'[s] = "form"
            /\ cartItems'[s] = cartItems[s]
            /\ ~success'[s]
            /\ receipts' = receipts
            /\ transactions' = transactions
       /\ (pc[s] \in {"check", "insert"} /\ pc'[s] = "form") =>
            error'[s] # NoError
       /\ (pc'[s] = "check" /\ pc[s] # "check") =>
            (pc[s] = "form" /\ error'[s] = NoError)
       /\ (success'[s] /\ ~success[s]) \/ (cartItems'[s] = <<>> /\ cartItems[s] # <<>>
                                            /\ pc[s] # "form") =>
            /\ pc[s] = "email"
            /\ transaction[s]._id \in DOMAIN transactions
            /\ transactions[transaction[s]._id].transactionId
                 = transaction[s].transactionId
            /\ success'[s]
            /\ cartItems'[s] = <<>>]_vars

\* C9 witness: a checkout has failed; its error is shown, the cart is still
\* full and no receipt has gone out.
C9_Witness ==
  \E s \in Sessions :
    /\ error[s] = StoreUnavailable
    /\ pc[s] = "form"
    /\ cartItems[s] # <<>>
    /\ ~success[s]
    /\ receipts = {}

\* C10: a receipt is dispatched only for an order already written to the
\* store, and whatever sendOrderConfirmationEmail does (delivers, falls back
\* after a relay failure, falls back unconfigured) the order stays in the
\* store with status Confirmed and the checkout completes.
C10_NotifyNeverRollsBack ==
  /\ [](/\ \A r \in receipts :
             /\ r.id \in DOMAIN transactions
             /\ transactions[r.id].transactionId = r.transactionId
             /\ transactions[r.id].status = "Confirmed"
        /\ \A s \in Sessions :
             pc[s] = "email" =>
               /\ transaction[s]._id \in DOMAIN transactions
               /\ WithId(transaction[s]._id, transactions[transaction[s]._id])
                    = transaction[s])
  /\ [][\A s \in Sessions :
          (pc[s] = "email" /\ pc'[s] # "email") =>
            /\ transactions' = transactions
            /\ success'[s]
            /\ Cardinality(receipts') = Cardinality(receipts) + 1]_vars

\* C10 witness: the relay was configured and failed, the receipt file was
\* produced instead, and the order is in the store, Confirmed.
C10_Witness ==
  /\ emailConfig = Configured
  /\ \E r \in receipts :
       /\ r.kind = "file"
       /\ transactions[r.id].status = CONFIRMED
  /\ \E s \in Sessions : success[s]

\* A session's sendOrderConfirmationEmail call returns in this step.
EmailReturns(s) == pc[s] = "email" /\ pc'[s] # "email"

\* C11: on a build whose relay values are all the shipped placeholders, every
\* call of sendOrderConfirmationEmail, whatever the transaction, ends without
\* calling the mail relay, leaves the downloaded receipt of that transaction,
\* returns false and does not throw (handleSubmit goes on to its cleanup and
\* shows no error); no relay mail is ever sent.
C11_UnsetRelayFallsBack ==
  /\ [](emailConfig = Placeholders => \A r \in receipts : r.kind = "file")
  /\ [][\A s \in Sessions :
         (emailConfig = Placeholders /\ EmailReturns(s))
         => /\ delivery'[s] =
                 [returned |-> FALSE, relayCalled |-> FALSE, kind |-> "file"]
            /\ receipts' = receipts \cup
                 {[kind |-> "file", to |-> transaction[s].payerEmail,
                   id |-> transaction[s]._id,
                   transactionId |-> transaction[s].transactionId]}
            /\ success'[s]
            /\ error'[s] = NoError]_vars

\* C11 witness: on the shipped build a checkout ended with the receipt file.
C11_Witness ==
  /\ emailConfig = Placeholders
  /\ \E s \in Sessions :
       /\ success[s]
       /\ delivery[s].kind = "file"
       /\ \E r \in receipts : r.kind = "file" /\ r.to = FormEmail(s)

\* Some relay value of the configuration is still the shipped placeholder.
AnyPlaceholder(config) ==
  \/ config.SERVICE_ID = "service_placeholder"
  \/ config.TEMPLATE_ID = "template_placeholder"
  \/ config.PUBLIC_KEY = "key_placeholder"

\* C12: sendOrderConfirmationEmail returns true exactly when the relay sent
\* the mail and false exactly when the receipt file was produced, the file is
\* never produced together with true, and whenever any of the three relay
\* values is the shipped placeholder the call produces the file and returns
\* false.
C12_TrueIffRelaySent ==
  [][\A s \in Sessions :
       EmailReturns(s)
       => /\ delivery'[s].returned <=> delivery'[s].kind = "mail"
          /\ ~delivery'[s].returned <=> delivery'[s].kind = "file"
          /\ AnyPlaceholder(emailConfig)
               => (~delivery'[s].returned /\ delivery'[s].kind = "file")]_vars

\* No entry of the list is older than the entry that follows it.
NewestFirst(list) ==
  \A i \in 1..(Len(list) - 1) : list[i].timestamp >= list[i + 1].timestamp

\* C13: getTransactions returns every stored transaction exactly once (each
\* with its document id and its stored fields) and newest first: of two
\* adjacent entries the earlier one's timestamp is not older than the later
\* one's.  The orders table of the Admin page, which is only ever filled from
\* getTransactions, is therefore newest first too.
C13_ListedOnceNewestFirst ==
  LET list == GetTransactions(transactions)
  IN  /\ Len(list) = Len(transactions)
      /\ \A id \in DOMAIN transactions :
           /\ Cardinality({i \in 1..Len(list) : list[i]._id = id}) = 1
           /\ \E i \in 1..Len(list) :
                /\ list[i]._id = id
                /\ list[i].timestamp = transactions[id].timestamp
                /\ list[i].transactionId = transactions[id].transactionId
                /\ list[i].status = transactions[id].status
      /\ NewestFirst(list)
      /\ NewestFirst(adminTransactions)

\* C13 witness: the Admin page lists two stored orders, the one written later
\* (and stored last) first.
C13_Witness ==
  /\ Len(adminTransactions) = 2
  /\ Len(transactions) = 2
  /\ adminTransactions[1]._id = 2
  /\ adminTransactions[1].timestamp > adminTransactions[2].timestamp
  /\ transactions[2].timestamp = adminTransactions[1].timestamp

\* The user holds a Confirmed stored order that lists the course name.
ConfirmedPurchase(u, name) ==
  \E id \in DOMAIN transactions :
    /\ transactions[id].userId = u
    /\ transactions[id].status = CONFIRMED
    /\ \E i \in 1..Len(transactions[id].courses) : transactions[id].courses[i] = name

\* C14: with both store reads succeeding, getUserPurchasedCourses(u) lists,
\* once each, exactly the courses of the current catalog whose name is listed
\* in some Confirmed order of u; a purchased name that no catalog course
\* carries any more adds nothing.
C14_PurchasedJoinsCatalogByName ==
  \A u \in UserIds :
    LET result == GetUserPurchasedCourses(TRUE, TRUE, transactions, courses, u)
    IN  /\ Range(result) =
             {courses[k] : k \in {j \in DOMAIN courses :
                                    ConfirmedPurchase(u, courses[j].name)}}
        /\ Cardinality(Range(result)) = Len(result)

\* C14 witness: u1's Confirmed order names "Intro to Go"; the course bought
\* was deleted, so it is not listed, while a course added later under the
\* same name is.
C14_Witness ==
  /\ ConfirmedPurchase("u1", "Intro to Go")
  /\ 1 \notin DOMAIN courses
  /\ LET result == GetUserPurchasedCourses(TRUE, TRUE, transactions, courses, "u1")
     IN  Len(result) = 1 /\ result[1].id > 2 /\ result[1].name = "Intro to Go"

\* The largest of a list of ids, 0 for the empty list.
Largest(ids) ==
  IF ids = <<>> THEN 0
  ELSE CHOOSE m \in Range(ids) : \A x \in Range(ids) : x <= m

\* The handler's call writes its courses in this step.
Writes(h, at) == catPc[h] = at /\ catPc'[h] = "idle" /\ assigned' # assigned

\* C15: whatever the catalog, bulkAddCourses gives the N courses of its batch
\* the ids max+1 .. max+N in batch order, max being the largest id in the
\* catalog when the call read it (0 for an empty catalog), and all N
\* documents appear in the collection in one step.
C15_BulkIdsConsecutiveFromMax ==
  [][\A h \in Handlers :
       Writes(h, "bulkCommit")
       => LET max == Largest(catSeen[h])
              n   == Len(catArg[h])
          IN  /\ assigned' = assigned \o [i \in 1..n |-> max + i]
              /\ \A i \in 1..n :
                   /\ max + i \in DOMAIN courses'
                   /\ courses'[max + i] =
                        [id |-> max + i, name |-> catArg[h][i].name,
                         price |-> catArg[h][i].price]
              /\ \A k \in DOMAIN courses \ {max + i : i \in 1..n} :
                   k \in DOMAIN courses' /\ courses'[k] = courses[k]]_vars

\* C16: addCourse gives the new course the id (largest id in the catalog when
\* the call read it) + 1, 1 for an empty catalog, stores it under that id and
\* returns the course with that id.
C16_AddIdIsMaxPlusOne ==
  [][\A h \in Handlers :
       Writes(h, "addSet")
       => LET newId == Largest(catSeen[h]) + 1
          IN  /\ assigned' = Append(assigned, newId)
              /\ newId \in DOMAIN courses'
              /\ courses'[newId] =
                   [id |-> newId, name |-> catArg[h][1].name,
                    price |-> catArg[h][1].price]
              /\ added'[h] = courses'[newId]]_vars

\* No two courses getCourses lists carry the same id.
IdsUnique ==
  /\ \A k \in DOMAIN courses : courses[k].id = k
  /\ LET ids == Ids(GetCourses(TRUE, courses))
     IN  \A i, j \in 1..Len(ids) : i # j => ids[i] # ids[j]

\* C17 as claimed: across any sequence of addCourse, bulkAddCourses and
\* deleteCourse calls no two catalog courses share an id and every id given
\* to a new course is greater than every id given earlier.
C17_UniqueAndMonotonic ==
  /\ IdsUnique
  /\ \A i, j \in 1..Len(assigned) : i < j => assigned[i] < assigned[j]

\* C17 as amended: no two catalog courses share an id, and every id given to
\* a new course is greater than every id in the course list its call read
\* (ids of one batch increasing in batch order); it need not be greater than
\* the ids given earlier.
C17_UniqueAndAboveRead ==
  /\ []IdsUnique
  /\ [][\A h \in Handlers :
         (Writes(h, "addSet") \/ Writes(h, "bulkCommit"))
         => \A i \in (Len(assigned) + 1)..Len(assigned') :
              /\ \A x \in Range(catRead[h]) : assigned'[i] > x
              /\ i > Len(assigned) + 1 => assigned'[i] > assigned'[i - 1]
              /\ assigned'[i] \in DOMAIN courses'
              /\ courses'[assigned'[i]].id = assigned'[i]]_vars

\* C17 witness: an id was given to a new course a second time (the course
\* that held it had been deleted) and the catalog holds one course under it.
C17_Witness ==
  \E i, j \in 1..Len(assigned) :
    /\ i < j
    /\ assigned[i] = assigned[j]
    /\ assigned[j] \in DOMAIN courses
    /\ catPc["h1"] = "idle"

\* C18: resetCourses overwrites with the seed set and is idempotent: after a
\* call every seed course is stored under its seed id with exactly its seed
\* values, a second call changes nothing, and the courses of other ids are
\* left as they were.
C18_ResetIdempotentOverwrite ==
  /\ [](LET once == SeedCourses(courses)
        IN  /\ \A i \in 1..Len(INITIAL_COURSES) :
                 /\ INITIAL_COURSES[i].id \in DOMAIN once
                 /\ once[INITIAL_COURSES[i].id] = INITIAL_COURSES[i]
            /\ SeedCourses(once) = once)
  /\ [][(courses' # courses /\ assigned' = assigned
          /\ DOMAIN courses \subseteq DOMAIN courses')
        => /\ \A i \in 1..Len(INITIAL_COURSES) :
                /\ INITIAL_COURSES[i].id \in DOMAIN courses'
                /\ courses'[INITIAL_COURSES[i].id] = INITIAL_COURSES[i]
           /\ \A k \in DOMAIN courses \ {INITIAL_COURSES[i].id : i \in 1..Len(INITIAL_COURSES)} :
                courses'[k] = courses[k]]_vars

\* C18 witness: id 2 had been given to an added course, a reset put the seed
\* course back under it, and a course added under another id is still there.
C18_Witness ==
  /\ 2 \in Range(assigned)
  /\ 2 \in DOMAIN courses
  /\ courses[2] = INITIAL_COURSES[2]
  /\ courses = SeedCourses(courses)
  /\ \E k \in DOMAIN courses : k > 2

\* C19: deleteCourse removes the course document and nothing else: every
\* stored order, its list of course names included, is as before, so
\* hasUserPurchasedCourse answers for the deleted course's name what it
\* answered before the delete.
C19_DeleteLeavesOrders ==
  [][\A id \in DOMAIN courses :
       id \notin DOMAIN courses'
       => /\ DOMAIN courses' = DOMAIN courses \ {id}
          /\ \A k \in DOMAIN courses' : courses'[k] = courses[k]
          /\ transactions' = transactions
          /\ \A u \in UserIds :
               HasUserPurchasedCourse(TRUE, transactions', u, courses[id].name)
                 = HasUserPurchasedCourse(TRUE, transactions, u, courses[id].name)]_vars

\* C19 witness: the course "Intro to Go" (id 1) is deleted and
\* hasUserPurchasedCourse still answers true for u1, whose Confirmed order
\* lists it.
C19_Witness ==
  /\ 1 \notin DOMAIN courses
  /\ HasUserPurchasedCourse(TRUE, transactions, "u1", "Intro to Go")
  /\ \E id \in DOMAIN transactions :
       /\ transactions[id].userId = "u1"
       /\ transactions[id].courses = <<"Intro to Go">>

\* The list holds no course id twice.
NoRepeats(list) == \A i, j \in 1..Len(list) : i # j => list[i] # list[j]

\* C20: for a signed-in user toggleWishlist(c) appends c to the local
\* wishlist when it is absent and removes it when present: from the empty
\* list toggling 5 gives [5] and toggling 5 again gives []; two toggles of one
\* course in a row give back a list with the contents it had; and no course
\* id is ever on the list twice.
C20_ToggleAddsOrRemoves ==
  /\ [](\A s \in Sessions :
          user[s] # NoUser
          => /\ NoRepeats(user[s].wishlist)
             /\ \A c \in WishIds :
                  LET once  == Toggled(user[s].wishlist, c)
                      twice == Toggled(once, c)
                  IN  /\ Range(twice) = Range(user[s].wishlist)
                      /\ Len(twice) = Len(user[s].wishlist)
                      /\ (c \in Range(once)) <=> (c \notin Range(user[s].wishlist)))
  /\ [](Toggled(<<>>, 5) = <<5>> /\ Toggled(Toggled(<<>>, 5), 5) = <<>>)
  /\ [][\A s \in Sessions :
         (user[s] # NoUser /\ user'[s] # user[s])
         => \E c \in WishIds :
              LET before == user[s].wishlist
                  after  == user'[s].wishlist
              IN  /\ user'[s]._id = user[s]._id
                  /\ \/ /\ c \notin Range(before)
                        /\ after = before \o <<c>>
                     \/ /\ c \in Range(before)
                        /\ c \notin Range(after)
                        /\ Range(after) = Range(before) \ {c}
                        /\ Len(after) = Len(before) - 1]_vars

\* C20 witness: u1 toggled course 5 on ([5] reached the store) and off again:
\* the local wishlist is empty and the empty list is on its way to the store.
C20_Witness ==
  /\ user["s1"].wishlist = <<>>
  /\ profile["u1"] = <<5>>
  /\ syncing = <<[userId |-> "u1", wishlist |-> <<>>]>>

\* C21: toggleWishlist puts the new list in the local `user` in the step that
\* hands it to updateUserWishlist, before the stored profile can change; the
\* end of a write leaves the local list as it is and raises no error, and
\* leaves the stored list either replaced by the written one or, when the
\* write failed, as it was; a failed write is not tried again, and the stored
\* list changes in no step but the landing of a write.
WriteEnded == syncing # <<>> /\ syncing' = Tail(syncing)

C22_AddReviewUnconditional ==
  /\ [](\A review \in Reviews(now) :
          online /\ Len(reviews) < MaxPosts => ENABLED AddReview(review))
  /\ [][reviews' # reviews =>
          /\ Len(reviews') = Len(reviews) + 1
          /\ SubSeq(reviews', 1, Len(reviews)) = reviews
          /\ reviews'[Len(reviews')] \in Reviews(now)]_vars

\* Two reviews of course 1 by one user who has no confirmed order of it.
C22_Witness ==
  /\ Len(reviews) = 2
  /\ reviews[1].courseId = 1 /\ reviews[2].courseId = 1
  /\ reviews[1].userId = reviews[2].userId
  /\ ~ConfirmedPurchase(reviews[1].userId, courses[1].name)

\* How often a record is in a list.
Times(list, r) == Cardinality({i \in DOMAIN list : list[i] = r})

\* got holds the stored reviews of course k and nothing else, each as often
\* as it is stored, no entry older than the one after it.
ListsReviewsOf(got, k) ==
  /\ \A i \in DOMAIN got : got[i].courseId = k
  /\ \A i \in DOMAIN reviews :
       reviews[i].courseId = k => Times(got, reviews[i]) = Times(reviews, reviews[i])
  /\ \A i \in DOMAIN got : Times(reviews, got[i]) > 0
  /\ \A i \in 1..(Len(got) - 1) : got[i].date >= got[i + 1].date

\* C23: with the read answered, getReviews(k) is the stored reviews of course
\* k, each once, newest first, for every course id k, and so is the list the
\* course page is handed; when the collection holds just one review, of
\* course 5 with rating 4, getReviews(5) is that one entry and getReviews of
\* any other course is empty.
C23_ReviewsOfCourseNewestFirst ==
  /\ [](/\ \A k \in ReviewedCourses \cup CourseIds :
             ListsReviewsOf(GetReviews(TRUE, reviews, k), k)
        /\ (Len(reviews) = 1 /\ reviews[1].courseId = 5 /\ reviews[1].rating = 4) =>
             /\ Len(GetReviews(TRUE, reviews, 5)) = 1
             /\ GetReviews(TRUE, reviews, 5)[1].rating = 4
             /\ \A k \in (ReviewedCourses \cup CourseIds) \ {5} :
                  GetReviews(TRUE, reviews, k) = <<>>)
  /\ [][(viewCourse["details"] # 0 /\ viewCourse'["details"] = 0 /\ online) =>
          ListsReviewsOf(viewReviews'["details"], viewCourse["details"])]_vars

\* The course page shows two reviews of its course written at different
\* times, the later one first.
C23_Witness ==
  /\ Len(viewReviews["details"]) = 2
  /\ viewReviews["details"][1].date > viewReviews["details"][2].date
  /\ Len(reviews) = 2

RECURSIVE RatingsUpTo(_, _)
RatingsUpTo(list, n) ==
  IF n = 0 THEN 0 ELSE list[n].rating + RatingsUpTo(list, n - 1)

\* C24: the average a view shows belongs to the view, not to the store: it
\* changes only when a getReviews call of the view returns, and whenever the
\* view holds a list that is not empty the average times the number of
\* reviews is the sum of their ratings; for ratings 4 and 2 it reads 3.0.
C24_AverageIsSumOverCount ==
  /\ [](\A v \in Views :
          viewReviews[v] # <<>> =>
            /\ avgRating[v].num * Len(viewReviews[v]) =
                 avgRating[v].den * RatingsUpTo(viewReviews[v], Len(viewReviews[v]))
            /\ avgRating[v].den > 0
            /\ ({viewReviews[v][i].rating : i \in DOMAIN viewReviews[v]} = {2, 4}
                  /\ Len(viewReviews[v]) = 2) => ToFixed1(avgRating[v]) = 30)
  /\ [][\A v \in Views :
          avgRating'[v] # avgRating[v] =>
            /\ viewCourse[v] # 0 /\ viewCourse'[v] = 0
            /\ viewReviews'[v] # <<>>]_vars

\* The course page holds a review of 4 and one of 2 and shows 3.
C24_Witness ==
  /\ Len(viewReviews["details"]) = 2
  /\ viewReviews["details"][1].rating = 4
  /\ viewReviews["details"][2].rating = 2
  /\ avgRating["details"] = [num |-> 3, den |-> 1]

\* The role the claim gives account a in the current state: the stored one
\* when the store answers and the profile holds a role, else the one that
\* goes with the address.
RoleByPrecedence(a) ==
  IF online /\ storedRole[a] \in {USER, ADMIN} THEN storedRole[a]
  ELSE IF EmailOf(a) = AdminEmail THEN ADMIN ELSE USER

\* C25: every user the session callback or loginUser hands over carries a
\* role, which is the role stored in the profile when the profile can be read
\* and holds one, and otherwise admin for the administrator's address and
\* user for any other; a profile that is missing or cannot be read makes
\* neither of them fail: the callback still gets its user, loginUser still
\* returns one, and Login shows no error.
C25_RoleResolvedByPrecedence ==
  /\ [](user["s1"] # NoUser => user["s1"].role \in {USER, ADMIN})
  /\ [][/\ \A a \in Accounts :
             AuthCallback("s1", a) =>
               /\ user'["s1"] # NoUser
               /\ user'["s1"]._id = a
               /\ user'["s1"].role = RoleByPrecedence(a)
               /\ loginError' = loginError
        /\ LoginReturns("s1") =>
             /\ user'["s1"] # NoUser
             /\ user'["s1"]._id = loginPc["s1"]
             /\ user'["s1"].role = RoleByPrecedence(loginPc["s1"])
             /\ loginError'["s1"] = NoError
        /\ (loginError'["s1"] # loginError["s1"] /\ loginError'["s1"] # NoError) =>
             loginPc["s1"] = NULL /\ UNCHANGED <<user, identity, reads>>]_vars

\* The profile of the signed-in customer holds the role admin, the read
\* failed, and the user carries the role of the address.
C25_Witness ==
  /\ user["s1"] # NoUser
  /\ user["s1"]._id = "u1"
  /\ storedRole["u1"] = ADMIN
  /\ user["s1"].role = USER

\* C26: localStorage's 'user' follows the session: the user the session
\* callback reports is the user the cache holds from then on, and while auth
\* holds no identity, which is so from the sign-out on, the cache is empty.
C26_CacheFollowsSession ==
  /\ [][\A a \in Accounts :
          AuthCallback("s1", a) =>
            cache'["s1"] = user'["s1"] /\ cache'["s1"]._id = a]_vars
  /\ [](identity["s1"] = NULL => cache["s1"] = NoUser)

C28_PurchaseQueriesAgree ==
  \A u \in UserIds \cup {NULL} :
    LET purchased == GetUserPurchasedCourses(TRUE, TRUE, transactions, courses, u)
    IN  \A id \in DOMAIN courses :
          (\E i \in DOMAIN purchased : purchased[i] = courses[id])
            <=> HasUserPurchasedCourse(TRUE, transactions, u, courses[id].name)

\* The catalog has changed, and one user has bought one of its courses but
\* not another whose name differs only in its capitals.
C28_Witness ==
  /\ assigned # <<>>
  /\ \E u \in UserIds, id1, id2 \in DOMAIN courses :
       /\ HasUserPurchasedCourse(TRUE, transactions, u, courses[id1].name)
       /\ ~HasUserPurchasedCourse(TRUE, transactions, u, courses[id2].name)
       /\ Folded(courses[id1].name) = Folded(courses[id2].name)

\* C29: addCourse writes under the id it computed from the list it read,
\* whatever the collection holds by then, and its write creates or replaces
\* the document of that id and touches no other: two calls that have both
\* read the same catalog and not yet written are about to write under the
\* same id; a write under the id of a course another call has just stored
\* puts the later course in its place and leaves the number of courses as it
\* was; so the catalog holds one course for every distinct id given, not one
\* for every call.
C29_LaterAddReplacesEarlier ==
  /\ [](/\ DOMAIN courses = CourseIds \cup Range(assigned)
        /\ \A h, o \in Handlers :
             (catPc[h] = "addSet" /\ catPc[o] = "addSet" /\ catSeen[h] = catSeen[o]) =>
               Largest(catRead[h]) = Largest(catRead[o]))
  /\ [][\A h \in Handlers :
          Writes(h, "addSet") =>
            LET k == Largest(catRead[h]) + 1
            IN  /\ added'[h] = [id |-> k, name |-> catArg[h][1].name,
                                price |-> catArg[h][1].price]
                /\ courses'[k] = added'[h]
                /\ DOMAIN courses' = DOMAIN courses \cup {k}
                /\ \A j \in DOMAIN courses \ {k} : courses'[j] = courses[j]
                /\ \A o \in Handlers \ {h} :
                     (added[o].id = k /\ k \in DOMAIN courses) =>
                       Cardinality(DOMAIN courses') = Cardinality(DOMAIN courses)]_vars

\* Two calls have returned different courses under the same id 3; the
\* catalog holds three courses, the one under id 3 being the one written
\* last.
C29_Witness ==
  /\ added["h1"].id = 3 /\ added["h2"].id = 3
  /\ added["h1"] # added["h2"]
  /\ assigned = <<3, 3>>
  /\ DOMAIN courses = {1, 2, 3}
  /\ courses[3] \in {added["h1"], added["h2"]}
  /\ catPc["h1"] = "idle" /\ catPc["h2"] = "idle"

\* The ids of the seed courses.
SeedIds == {INITIAL_COURSES[i].id : i \in 1..Len(INITIAL_COURSES)}

\* C30: a reset writes the documents of the seed ids and no other: after it
\* the collection holds every seed course as the seed set has it, also one
\* that had been deleted, and every course under another id exactly as it
\* was before; it holds nothing else, and the orders and reviews are as they
\* were.
C30_ResetKeepsAddedCourses ==
  [][ResetCourses =>
       /\ DOMAIN courses' = SeedIds \cup DOMAIN courses
       /\ \A k \in DOMAIN courses \ SeedIds : courses'[k] = courses[k]
       /\ \A i \in 1..Len(INITIAL_COURSES) :
            courses'[INITIAL_COURSES[i].id] = INITIAL_COURSES[i]
       /\ \A k \in SeedIds \ DOMAIN courses : k \in DOMAIN courses'
       /\ UNCHANGED <<transactions, reviews>>]_vars

\* Seed course 2 had been deleted and its id given to an added course, a
\* second course was added under id 3, and after the reset the seed course
\* is back under id 2 with the course under id 3 still in the catalog.
C30_Witness ==
  /\ assigned = <<2, 3>>
  /\ DOMAIN courses = {1, 2, 3}
  /\ courses[1] = INITIAL_COURSES[1]
  /\ courses[2] = INITIAL_COURSES[2]
  /\ courses[3].name = "React Basics"

====
